---- MODULE Spec2Model ----
(***************************************************************************)
(* Model of the two scripts of the repository:                             *)
(*   tools/excel_to_publications.py  (spreadsheet -> publications.json)    *)
(*   optimize_image.py               (profile picture 1x / 2x variants)    *)
(*                                                                         *)
(* Text is modelled as sequences of one-character strings, so that         *)
(* str.strip, str.lower, the substring tests and the two regular           *)
(* expressions are computed character by character as Python does.         *)
(* Optional[int] is a sequence of length at most one: <<>> is None.        *)
(***************************************************************************)
EXTENDS Integers, Sequences, FiniteSets, TLC

VARIABLES
    \* ---- excel_to_publications.py ----
    xlsxExists,       \* data/publications_source.xlsx is present on disk
    sheet,            \* the data rows of the chosen worksheet (sheet row 2 onward)
    pc,               \* position of main()
    rowIdx,           \* position of the for loop of load_excel_rows
    journal,          \* list[PubRow] being filled by load_excel_rows
    proceedings,      \* list[PubRow] being filled by load_excel_rows
    last_year,        \* Optional[int] carried year
    journal_sorted,   \* items_sorted of the call on the journal bucket
    proceedings_sorted, \* items_sorted of the call on the proceedings bucket
    journal_out,      \* main's `journal` (output of sort_and_assign_within_year)
    proceedings_out,  \* main's `proceedings`
    outFile,          \* content of data/publications.json: <<>> or <<payload>>
    prevFile,         \* content of data/publications.json left by the previous run
    clock,            \* datetime.now() in whole seconds
    runs,             \* number of times the converter was started
    exitStatus,       \* process exit status of the last started run: <<>> while running
    \* ---- optimize_image.py ----
    fs,               \* the three image files of the working directory
    imgRuns,          \* number of runs of generate_profile_variants so far
    firstInput,       \* the image the first run opened: <<>> or <<img>>
    lastInput,        \* the image the last run opened: <<>> or <<img>>
    lastInputPath,    \* the path the last run opened
    lastSaved,        \* the images handed to save() by the last run, in call order
    lastResult,       \* "none" | "ok" | "error" : how the last run ended
    allOk,            \* every run so far ended "ok"
    imgExit           \* exit status of the last run of the image script

xvars == <<xlsxExists, sheet, pc, rowIdx, journal, proceedings, last_year,
           journal_sorted, proceedings_sorted, journal_out, proceedings_out, outFile, prevFile, clock, runs, exitStatus>>
ivars == <<fs, imgRuns, firstInput, lastInput, lastInputPath, lastSaved,
           lastResult, allOk, imgExit>>
vars == <<xvars, ivars>>

(***************************************************************************)
(* Bounds of the model.                                                    *)
(***************************************************************************)
MaxRows == 3        \* data rows in the worksheet
MaxRuns == 2        \* successive runs of the converter
MaxImgRuns == 2     \* successive runs of the image script
HeightSlack == 1    \* image heights within this distance of 0, 600 and 1200
MaxW == 2           \* image widths 1..MaxW

(***************************************************************************)
(* Text helpers                                                            *)
(***************************************************************************)
NoneVal == <<>>
Some(x) == <<x>>

Digits == <<"0", "1", "2", "3", "4", "5", "6", "7", "8", "9">>
UpperAlpha == <<"A","B","C","D","E","F","G","H","I","J","K","L","M",
                "N","O","P","Q","R","S","T","U","V","W","X","Y","Z">>
LowerAlpha == <<"a","b","c","d","e","f","g","h","i","j","k","l","m",
                "n","o","p","q","r","s","t","u","v","w","x","y","z">>

IsDigit(c) == \E i \in 1..Len(Digits) : Digits[i] = c
DigitVal(c) == (CHOOSE i \in 1..Len(Digits) : Digits[i] = c) - 1
IsSpace(c) == c = " "

\* int(text) for a text made of decimal digits
RECURSIVE DigitsToInt(_)
DigitsToInt(s) ==
    IF s = <<>> THEN 0
    ELSE DigitsToInt(SubSeq(s, 1, Len(s) - 1)) * 10 + DigitVal(s[Len(s)])

\* str(n) for an int n >= 0
RECURSIVE IntToStr(_)
IntToStr(n) ==
    IF n < 10 THEN <<Digits[n + 1]>>
    ELSE IntToStr(n \div 10) \o <<Digits[(n % 10) + 1]>>

\* zero-padded two-digit field, as datetime.__str__ prints month, day, ...
Pad2(n) == IF n < 10 THEN <<"0">> \o IntToStr(n) ELSE IntToStr(n)

\* str.lower
LowerChar(c) ==
    IF \E i \in 1..Len(UpperAlpha) : UpperAlpha[i] = c
    THEN LowerAlpha[CHOOSE i \in 1..Len(UpperAlpha) : UpperAlpha[i] = c]
    ELSE c
Lower(s) == [i \in 1..Len(s) |-> LowerChar(s[i])]

\* str.strip
RECURSIVE LStrip(_)
LStrip(s) == IF s # <<>> /\ IsSpace(s[1]) THEN LStrip(Tail(s)) ELSE s
RECURSIVE RStrip(_)
RStrip(s) ==
    IF s # <<>> /\ IsSpace(s[Len(s)]) THEN RStrip(SubSeq(s, 1, Len(s) - 1)) ELSE s
Strip(s) == RStrip(LStrip(s))

\* `sub in s`
Contains(s, sub) ==
    \E i \in 1..(Len(s) - Len(sub) + 1) : SubSeq(s, i, i + Len(sub) - 1) = sub

(***************************************************************************)
(* Cell values as openpyxl hands them over with values_only=True           *)
(***************************************************************************)
CNone == [t |-> "none", s |-> <<>>, n |-> 0, y |-> 0, m |-> 0, d |-> 0]
CStr(str) == [t |-> "str", s |-> str, n |-> 0, y |-> 0, m |-> 0, d |-> 0]
CInt(k) == [t |-> "int", s |-> <<>>, n |-> k, y |-> 0, m |-> 0, d |-> 0]
CDate(yy, mm, dd) == [t |-> "datetime", s |-> <<>>, n |-> 0, y |-> yy, m |-> mm, d |-> dd]

\* str(x) of a cell value (a datetime cell of a date column has time 00:00:00)
PyStr(x) ==
    CASE x.t = "str" -> x.s
      [] x.t = "int" -> IntToStr(x.n)
      [] x.t = "datetime" ->
            IntToStr(x.y) \o <<"-">> \o Pad2(x.m) \o <<"-">> \o Pad2(x.d)
            \o <<" ", "0", "0", ":", "0", "0", ":", "0", "0">>
      [] OTHER -> <<>>

_as_str(x) == IF x.t = "none" THEN <<>> ELSE Strip(PyStr(x))

_is_missing(x) ==
    LET s == _as_str(x)
    IN  s = <<>> \/ s = <<"-">> \/ Lower(s) = <<"n", "a", "n">>

\* RE_YEAR = (?<!\d)(19|20)\d{2} matching at position i of s
RE_YEAR_at(s, i) ==
    /\ i + 3 <= Len(s)
    /\ \/ (s[i] = "1" /\ s[i + 1] = "9")
       \/ (s[i] = "2" /\ s[i + 1] = "0")
    /\ IsDigit(s[i + 2])
    /\ IsDigit(s[i + 3])
    /\ (i = 1 \/ ~IsDigit(s[i - 1]))

\* RE_YEAR.search(s): the text of the leftmost match, or None
RE_YEAR_search(s) ==
    LET hits == {i \in 1..Len(s) : RE_YEAR_at(s, i)}
    IN  IF hits = {} THEN NoneVal
        ELSE LET i == CHOOSE j \in hits : \A k \in hits : j <= k
             IN  Some(SubSeq(s, i, i + 3))

\* RE_DATE_DOT = ^(?P<y>(19|20)\d{2})\.(?P<m>\d{2})\.(?P<d>\d{2})$
RE_DATE_DOT_match(s) ==
    /\ Len(s) = 10
    /\ \/ (s[1] = "1" /\ s[2] = "9")
       \/ (s[1] = "2" /\ s[2] = "0")
    /\ IsDigit(s[3]) /\ IsDigit(s[4])
    /\ s[5] = "."
    /\ IsDigit(s[6]) /\ IsDigit(s[7])
    /\ s[8] = "."
    /\ IsDigit(s[9]) /\ IsDigit(s[10])

\* _parse_year_from_any(*fields): fields is a sequence of cell values
RECURSIVE _parse_year_from_any(_)
_parse_year_from_any(fields) ==
    IF fields = <<>> THEN NoneVal
    ELSE LET m == RE_YEAR_search(_as_str(Head(fields)))
         IN  IF m # NoneVal THEN Some(DigitsToInt(m[1]))
             ELSE _parse_year_from_any(Tail(fields))

_parse_date_int(date_val) ==
    IF date_val.t = "none" THEN 0
    ELSE IF date_val.t = "datetime"
    THEN date_val.y * 10000 + date_val.m * 100 + date_val.d
    ELSE LET s == _as_str(date_val)
         IN  IF _is_missing(CStr(s)) THEN 0
             ELSE IF ~RE_DATE_DOT_match(s)
             THEN LET y == _parse_year_from_any(<<CStr(s)>>)
                  IN  IF y # NoneVal /\ y[1] # 0 THEN y[1] * 10000 ELSE 0
             ELSE DigitsToInt(SubSeq(s, 1, 4)) * 10000
                  + DigitsToInt(SubSeq(s, 6, 7)) * 100
                  + DigitsToInt(SubSeq(s, 9, 10))

\* f"{v:.1f}" and f"{v:.2f}" of an int v >= 0
Fmt1f(k) == IntToStr(k) \o <<".", "0">>
Fmt2f(k) == IntToStr(k) \o <<".", "0", "0">>

JoinComma(parts) ==
    IF Len(parts) = 1 THEN parts[1]
    ELSE parts[1] \o <<",", " ">> \o parts[2]

_fmt_if_top(if_val, top_val) ==
    IF _is_missing(if_val) /\ _is_missing(top_val) THEN <<>>
    ELSE LET ifPart ==
                 IF _is_missing(if_val) THEN <<>>
                 ELSE IF if_val.t = "int"
                      THEN << <<"I", "F", " ">> \o Fmt1f(if_val.n) >>
                      ELSE << <<"I", "F", " ">> \o _as_str(if_val) >>
             topPart ==
                 IF _is_missing(top_val) THEN <<>>
                 ELSE IF top_val.t = "int"
                      THEN << <<"T", "o", "p", " ">> \o Fmt2f(top_val.n) \o <<"%">> >>
                      ELSE << <<"T", "o", "p", " ">> \o _as_str(top_val) \o <<"%">> >>
             parts == ifPart \o topPart
         IN  IF parts = <<>> THEN <<>>
             ELSE <<" ", "(">> \o JoinComma(parts) \o <<")">>

(***************************************************************************)
(* load_excel_rows                                                         *)
(***************************************************************************)
JOURNAL == <<"j", "o", "u", "r", "n", "a", "l">>
CONFERENCE == <<"c", "o", "n", "f", "e", "r", "e", "n", "c", "e">>

\* row[k] if len(row) > k else dflt        (k is the 0-based Python index)
CellOr(row, k, dflt) == IF Len(row) > k THEN row[k + 1] ELSE dflt

RowTitle(row) == _as_str(CellOr(row, 1, CNone))
RowTypeL(row) == Lower(_as_str(CellOr(row, 2, CNone)))

\* variant of IsSkipped without the type filter
IsSkippedBlankOnly(title, paper_type_l) == title = <<>>

\* the two `continue` statements of the loop
IsSkipped(title, paper_type_l) ==
    \/ title = <<>>
    \/ (~Contains(paper_type_l, JOURNAL) /\ ~Contains(paper_type_l, CONFERENCE))

\* variant of Kind that tests for "conference" first
KindConferenceFirst(paper_type_l) ==
    IF Contains(paper_type_l, CONFERENCE) THEN "proceedings" ELSE "journal"

Kind(paper_type_l) ==
    IF Contains(paper_type_l, JOURNAL) THEN "journal" ELSE "proceedings"

\* variant of InferYear that never stores the parsed year in last_year
InferYearNoStore(parsed, ly) ==
    IF parsed = NoneVal
    THEN IF ly # NoneVal THEN <<ly[1], ly>> ELSE <<0, ly>>
    ELSE <<parsed[1], ly>>

\* Year inference: <<year of the record, new value of last_year>>
InferYear(parsed, ly) ==
    IF parsed = NoneVal
    THEN IF ly # NoneVal THEN <<ly[1], ly>> ELSE <<0, ly>>
    ELSE <<parsed[1], parsed>>

VenueText(venue_main, venue_detail, paper_type_l, if_val, top_val) ==
    LET base ==
            IF venue_detail # <<>> /\ venue_detail # <<"-">>
            THEN IF venue_main # <<>>
                 THEN venue_main \o <<" ">> \o venue_detail
                 ELSE venue_detail
            ELSE venue_main
    IN  IF Contains(paper_type_l, JOURNAL)
        THEN base \o _fmt_if_top(if_val, top_val)
        ELSE base

\* the PubRow built from a kept row, and the year carried after it
RowYear(row, ly) ==
    InferYear(_parse_year_from_any(<<CellOr(row, 4, CNone),
                                     CStr(_as_str(CellOr(row, 3, CNone))),
                                     CStr(_as_str(CellOr(row, 6, CNone))),
                                     CStr(RowTitle(row))>>), ly)

PubRow(row, sheet_pos, ly) ==
    [sheet_pos  |-> sheet_pos,
     kind       |-> Kind(RowTypeL(row)),
     year       |-> RowYear(row, ly)[1],
     date_int   |-> _parse_date_int(CellOr(row, 4, CNone)),
     title      |-> RowTitle(row),
     authors    |-> _as_str(CellOr(row, 5, CNone)),
     venue_text |-> VenueText(_as_str(CellOr(row, 3, CNone)),
                              _as_str(CellOr(row, 6, CNone)),
                              RowTypeL(row),
                              CellOr(row, 9, CNone),
                              CellOr(row, 10, CNone))]

\* variant of LoadLocals whose lists and carried year outlive the call
LoadLocalsKept == [journal |-> journal, proceedings |-> proceedings, last_year |-> last_year]

\* the locals of load_excel_rows before the loop
LoadLocals == [journal |-> <<>>, proceedings |-> <<>>, last_year |-> NoneVal]

(***************************************************************************)
(* sort_and_assign_within_year                                             *)
(***************************************************************************)
\* variant of KeyLess with the date ascending
KeyLessDateAsc(a, b) ==
    \/ -a.year < -b.year
    \/ (-a.year = -b.year /\ a.date_int < b.date_int)
    \/ (-a.year = -b.year /\ a.date_int = b.date_int /\ a.sheet_pos < b.sheet_pos)

\* key=lambda x: (-x.year, -x.date_int, x.sheet_pos), compared as tuples
KeyLess(a, b) ==
    \/ -a.year < -b.year
    \/ (-a.year = -b.year /\ -a.date_int < -b.date_int)
    \/ (-a.year = -b.year /\ -a.date_int = -b.date_int /\ a.sheet_pos < b.sheet_pos)

\* stable insertion of x behind every element that does not sort after it
Insert(srt, x) ==
    LET before == {i \in 1..Len(srt) : ~KeyLess(x, srt[i])}
        k == IF before = {} THEN 0 ELSE CHOOSE i \in before : \A j \in before : j <= i
    IN  SubSeq(srt, 1, k) \o <<x>> \o SubSeq(srt, k + 1, Len(srt))

\* sorted(items, key=...): Python's sort is stable
RECURSIVE SortedByKey(_)
SortedByKey(items) ==
    IF items = <<>> THEN <<>>
    ELSE Insert(SortedByKey(SubSeq(items, 1, Len(items) - 1)), items[Len(items)])

\* variant of WithinFor that restarts the rank only for the first record
WithinForNoReset(current_year, within, it) ==
    IF current_year = NoneVal THEN 0 ELSE within

\* the rank given to `it` when the loop holds (current_year, within)
WithinFor(current_year, within, it) ==
    IF current_year # Some(it.year) THEN 0 ELSE within

OutEntry(it, within) ==
    [year              |-> IF it.year # 0 THEN Some(it.year) ELSE NoneVal,
     title             |-> it.title,
     authors           |-> it.authors,
     venue             |-> it.venue_text,
     within_year_order |-> within]

\* the for loop over items_sorted from position i on
RECURSIVE AssignLoop(_, _, _, _)
AssignLoop(items_sorted, i, current_year, within) ==
    IF i > Len(items_sorted) THEN <<>>
    ELSE LET it == items_sorted[i]
             w == WithinFor(current_year, within, it)
         IN  <<OutEntry(it, w)>> \o AssignLoop(items_sorted, i + 1, Some(it.year), w + 1)

sort_and_assign_within_year(items_sorted) == AssignLoop(items_sorted, 1, NoneVal, 0)

(***************************************************************************)
(* The worksheets the converter is run on                                  *)
(***************************************************************************)
sJournalCap == <<"J">> \o Tail(JOURNAL)
sJournalUp == <<" ", "J", "O", "U", "R", "N", "A", "L", " ">>
sConfCap == <<"C">> \o Tail(CONFERENCE)
sBoth == sConfCap \o <<" ">> \o sJournalCap
sBook == <<"B", "o", "o", "k">>
sDash == <<"-">>

\* a row of the eleven columns the script reads (columns 1, 8, 9 are not read)
Row(title, type, venue, date, authors, detail, if_val, top_val) ==
    <<CNone, title, type, venue, date, authors, detail, CNone, CNone, if_val, top_val>>

Pool ==
    { \* journal, dotted date, numeric IF, textual Top
      Row(CStr(<<"A">>), CStr(JOURNAL), CStr(<<"J">>),
          CStr(<<"2","0","2","4",".","0","3",".","0","5">>),
          CStr(<<"K">>), CStr(sDash), CInt(7), CStr(<<"4",".","9","5">>)),
      \* journal in capitals with blanks around, datetime cell, numeric Top only
      Row(CStr(<<"B">>), CStr(sJournalUp), CStr(<<"J">>), CDate(2024, 11, 20),
          CStr(<<"L">>), CStr(<<"1","2">>), CStr(sDash), CInt(5)),
      \* conference, no date; a year in the venue and another in the title
      Row(CStr(<<"T","1","9","9","9">>), CStr(sConfCap),
          CStr(<<"I","C","X","2","0","2","3">>),
          CStr(sDash), CStr(<<"K">>), CNone, CNone, CNone),
      \* conference without any year; the article number is no year
      Row(CStr(<<"D">>), CStr(CONFERENCE), CStr(<<"W">>), CStr(sDash),
          CStr(<<"K">>), CStr(<<"0","6","2","0","0","7">>), CNone, CNone),
      \* blank title: skipped although it carries a type and a date
      Row(CStr(<<" ", " ">>), CStr(JOURNAL), CStr(<<"J">>),
          CStr(<<"2","0","1","9",".","0","1",".","0","2">>),
          CStr(<<"K">>), CNone, CNone, CNone),
      \* neither journal nor conference: skipped
      Row(CStr(<<"F">>), CStr(sBook), CStr(<<"J">>),
          CStr(<<"2","0","1","8",".","0","5",".","0","6">>),
          CStr(<<"K">>), CNone, CNone, CNone),
      \* a type naming both; the date is a bare year typed as a number
      Row(CStr(<<"G">>), CStr(sBoth), CStr(<<"J">>), CInt(2023),
          CStr(<<"L">>), CNone, CNone, CNone) }

\* ws.iter_rows pads every row to the sheet's max_column
SheetWidths == {3, 11}

Sheets ==
    UNION { { [i \in 1..n |-> SubSeq(f[i], 1, w)] : f \in [1..n -> Pool] }
            : <<n, w>> \in (0..MaxRows) \X SheetWidths }

(***************************************************************************)
(* main() of excel_to_publications.py                                      *)
(***************************************************************************)
Payload(jout, pout, now) ==
    [generated_from |-> "publications_source.xlsx",
     generated_at   |-> now,
     counts         |-> [journal |-> Len(jout), proceedings |-> Len(pout)],
     journal_papers |-> jout,
     proceedings    |-> pout]

IdleImage ==
    /\ fs = [full |-> <<>>, profile |-> <<>>, profile2x |-> <<>>]
    /\ imgRuns = 0
    /\ firstInput = <<>>
    /\ lastInput = <<>>
    /\ lastInputPath = ""
    /\ lastSaved = <<>>
    /\ lastResult = "none"
    /\ allOk = TRUE
    /\ imgExit = <<>>

InitExcel ==
    /\ xlsxExists \in BOOLEAN
    /\ sheet \in (IF xlsxExists THEN Sheets ELSE {<<>>})
    /\ pc = "idle"
    /\ rowIdx = 1
    /\ journal = <<>>
    /\ proceedings = <<>>
    /\ last_year = NoneVal
    /\ journal_sorted = <<>>
    /\ proceedings_sorted = <<>>
    /\ journal_out = <<>>
    /\ proceedings_out = <<>>
    /\ outFile = <<>>
    /\ prevFile = <<>>
    /\ clock = 0
    /\ runs = 0
    /\ exitStatus = <<>>
    /\ IdleImage

\* main() is entered and load_excel_rows runs up to its loop
MainStart ==
    /\ pc = "idle"
    /\ runs < MaxRuns
    /\ xlsxExists
    /\ pc' = "load"
    /\ rowIdx' = 1
    /\ journal' = LoadLocals.journal
    /\ proceedings' = LoadLocals.proceedings
    /\ last_year' = LoadLocals.last_year
    /\ journal_sorted' = <<>>
    /\ proceedings_sorted' = <<>>
    /\ journal_out' = <<>>
    /\ proceedings_out' = <<>>
    /\ prevFile' = outFile
    /\ clock' = clock + 1
    /\ runs' = runs + 1
    /\ exitStatus' = <<>>
    /\ UNCHANGED <<xlsxExists, sheet, outFile>>
    /\ UNCHANGED ivars

\* openpyxl.load_workbook raises on a missing file; main() has no handler,
\* the interpreter prints the traceback and exits with status 1
MainOpenFails ==
    /\ pc = "idle"
    /\ runs < MaxRuns
    /\ ~xlsxExists
    /\ prevFile' = outFile
    /\ clock' = clock + 1
    /\ runs' = runs + 1
    /\ exitStatus' = <<1>>
    /\ UNCHANGED <<xlsxExists, sheet, pc, rowIdx, journal, proceedings, last_year,
                   journal_sorted, proceedings_sorted, journal_out, proceedings_out,
                   outFile>>
    /\ UNCHANGED ivars

\* one iteration of the for loop of load_excel_rows
LoadRow ==
    /\ pc = "load"
    /\ rowIdx <= Len(sheet)
    /\ LET row == sheet[rowIdx]
           sheet_pos == rowIdx + 1
           rec == PubRow(row, sheet_pos, last_year)
       IN  IF IsSkipped(RowTitle(row), RowTypeL(row))
           THEN UNCHANGED <<journal, proceedings, last_year>>
           ELSE /\ last_year' = RowYear(row, last_year)[2]
                /\ IF rec.kind = "journal"
                   THEN journal' = Append(journal, rec) /\ UNCHANGED proceedings
                   ELSE proceedings' = Append(proceedings, rec) /\ UNCHANGED journal
    /\ rowIdx' = rowIdx + 1
    /\ UNCHANGED <<xlsxExists, sheet, pc, journal_sorted, proceedings_sorted,
                   journal_out, proceedings_out, outFile, prevFile, clock, runs,
                   exitStatus>>
    /\ UNCHANGED ivars

\* the loop is exhausted: return journal, proceedings
LoadReturn ==
    /\ pc = "load"
    /\ rowIdx > Len(sheet)
    /\ pc' = "sort_journal"
    /\ UNCHANGED <<xlsxExists, sheet, rowIdx, journal, proceedings, last_year,
                   journal_sorted, proceedings_sorted, journal_out, proceedings_out,
                   outFile, prevFile, clock, runs, exitStatus>>
    /\ UNCHANGED ivars

\* journal = sort_and_assign_within_year(journal_rows)
SortJournal ==
    /\ pc = "sort_journal"
    /\ journal_sorted' = SortedByKey(journal)
    /\ journal_out' = sort_and_assign_within_year(journal_sorted')
    /\ pc' = "sort_proceedings"
    /\ UNCHANGED <<xlsxExists, sheet, rowIdx, journal, proceedings, last_year,
                   proceedings_sorted, proceedings_out, outFile, prevFile, clock,
                   runs, exitStatus>>
    /\ UNCHANGED ivars

\* proceedings = sort_and_assign_within_year(proceedings_rows)
SortProceedings ==
    /\ pc = "sort_proceedings"
    /\ proceedings_sorted' = SortedByKey(proceedings)
    /\ proceedings_out' = sort_and_assign_within_year(proceedings_sorted')
    /\ pc' = "write"
    /\ UNCHANGED <<xlsxExists, sheet, rowIdx, journal, proceedings, last_year,
                   journal_sorted, journal_out, outFile, prevFile, clock, runs,
                   exitStatus>>
    /\ UNCHANGED ivars

\* payload = {...}; json.dump(payload, f); main returns, exit status 0
WriteJson ==
    /\ pc = "write"
    /\ outFile' = Some(Payload(journal_out, proceedings_out, clock))
    /\ pc' = "idle"
    /\ exitStatus' = <<0>>
    /\ UNCHANGED <<xlsxExists, sheet, rowIdx, journal, proceedings, last_year,
                   journal_sorted, proceedings_sorted, journal_out, proceedings_out,
                   prevFile, clock, runs>>
    /\ UNCHANGED ivars

NextExcel ==
    \/ MainStart
    \/ MainOpenFails
    \/ LoadRow
    \/ LoadReturn
    \/ SortJournal
    \/ SortProceedings
    \/ WriteJson

SpecExcel == InitExcel /\ [][NextExcel]_vars

(***************************************************************************)
(* optimize_image.py                                                       *)
(*                                                                         *)
(* An image is its size and colour mode.  A file holds nothing (<<>>), an  *)
(* image, or the empty content left by a save that failed after opening    *)
(* the existing file for writing (mode "truncated", which cannot be        *)
(* opened as an image).                                                    *)
(***************************************************************************)
Target1x == 600
Target2x == 1200

Modes == {"RGB", "RGBA", "P", "L", "LA", "CMYK"}

\* raw modes the JPEG writer accepts, among Modes
JpegModes == {"RGB", "L", "CMYK"}

Heights ==
    {h \in 1..(Target2x + HeightSlack) :
        \/ h <= HeightSlack
        \/ (h >= Target1x - HeightSlack /\ h <= Target1x + HeightSlack)
        \/ h >= Target2x - HeightSlack}

Images == [w : 1..MaxW, h : Heights, mode : Modes]

Truncated == [w |-> 0, h |-> 0, mode |-> "truncated"]

\* round(num / den) as Python rounds: to nearest, ties to even
\* (for the widths of this model w * (target_h / h) in IEEE doubles rounds alike)
PyRound(num, den) ==
    LET q == num \div den
        r == num % den
    IN  IF 2 * r < den THEN q
        ELSE IF 2 * r > den THEN q + 1
        ELSE IF q % 2 = 0 THEN q ELSE q + 1

\* Image.resize raises ValueError unless both sides are at least 1
ResizeRaises(target_w, target_h) == target_w < 1 \/ target_h < 1

\* _resize_by_height(img, target_h): <<image>>, or <<>> when resize raises
_resize_by_height(img, target_h) ==
    IF img.h <= target_h THEN Some(img)
    ELSE LET target_w == PyRound(img.w * target_h, img.h)
         IN  IF ResizeRaises(target_w, target_h) THEN NoneVal
             ELSE Some([w |-> target_w, h |-> target_h, mode |-> img.mode])

\* variant of InputPath that always takes profile.jpg
InputPathProfileOnly(files) == "profile.jpg"

\* input_path = "profile_full.jpg" if os.path.exists(...) else "profile.jpg"
InputPath(files) == IF files.full # <<>> THEN "profile_full.jpg" ELSE "profile.jpg"

FileAt(files, path) == IF path = "profile_full.jpg" THEN files.full ELSE files.profile

\* if img.mode in ("RGBA", "P"): img = img.convert("RGB")
Converted(img) ==
    IF img.mode \in {"RGBA", "P"} THEN [img EXCEPT !.mode = "RGB"] ELSE img

\* img.save(path) as JPEG: the file after the call, and whether save raised.
\* The file is opened for writing before the encoder rejects the mode: a new
\* file is removed again, an existing one is left empty.
SaveJpeg(old, img) ==
    IF img.mode \in JpegModes
    THEN [file |-> Some(img), raised |-> FALSE]
    ELSE [file |-> IF old = <<>> THEN <<>> ELSE Some(Truncated), raised |-> TRUE]

\* the body of the try block: the files afterwards, the images given to save,
\* and whether an exception reached the except clause
TryBody(files) ==
    LET src == FileAt(files, InputPath(files))
    IN  IF src = <<>> \/ src = Some(Truncated)
        THEN [files |-> files, saved |-> <<>>, raised |-> TRUE]
        ELSE LET img == Converted(src[1])
                 img_1x == _resize_by_height(img, Target1x)
                 img_2x == _resize_by_height(img, Target2x)
             IN  IF img_1x = NoneVal \/ img_2x = NoneVal
                 THEN [files |-> files, saved |-> <<>>, raised |-> TRUE]
                 ELSE LET s1 == SaveJpeg(files.profile, img_1x[1])
                          s2 == SaveJpeg(files.profile2x, img_2x[1])
                      IN  IF s1.raised
                          THEN [files  |-> [files EXCEPT !.profile = s1.file],
                                saved  |-> <<img_1x[1]>>,
                                raised |-> TRUE]
                          ELSE [files  |-> [files EXCEPT !.profile = s1.file,
                                                          !.profile2x = s2.file],
                                saved  |-> <<img_1x[1], img_2x[1]>>,
                                raised |-> s2.raised]

IdleExcel ==
    /\ xlsxExists = FALSE
    /\ sheet = <<>>
    /\ pc = "idle"
    /\ rowIdx = 1
    /\ journal = <<>>
    /\ proceedings = <<>>
    /\ last_year = NoneVal
    /\ journal_sorted = <<>>
    /\ proceedings_sorted = <<>>
    /\ journal_out = <<>>
    /\ proceedings_out = <<>>
    /\ outFile = <<>>
    /\ prevFile = <<>>
    /\ clock = 0
    /\ runs = 0
    /\ exitStatus = <<>>

\* any content of the working directory before the first run
InitImage ==
    /\ fs \in [full : {<<>>} \cup {Some(i) : i \in Images},
               profile : {<<>>} \cup {Some(i) : i \in Images},
               profile2x : {<<>>}]
    /\ imgRuns = 0
    /\ firstInput = <<>>
    /\ lastInput = <<>>
    /\ lastInputPath = ""
    /\ lastSaved = <<>>
    /\ lastResult = "none"
    /\ allOk = TRUE
    /\ imgExit = <<>>
    /\ IdleExcel

\* one run of the script: generate_profile_variants() from entry to return
generate_profile_variants ==
    /\ imgRuns < MaxImgRuns
    /\ LET path == InputPath(fs)
           src == FileAt(fs, path)
           res == TryBody(fs)
       IN  /\ fs' = res.files
           /\ lastInputPath' = path
           /\ lastInput' = src
           /\ firstInput' = IF imgRuns = 0 THEN src ELSE firstInput
           /\ lastSaved' = res.saved
           /\ lastResult' = IF res.raised THEN "error" ELSE "ok"
           /\ allOk' = (allOk /\ ~res.raised)
    /\ imgRuns' = imgRuns + 1
    /\ imgExit' = <<0>>
    /\ UNCHANGED xvars

NextImage == generate_profile_variants

SpecImage == InitImage /\ [][NextImage]_vars

(***************************************************************************)
(* Properties of the spreadsheet converter                                 *)
(***************************************************************************)
\* rows the loop of load_excel_rows has been through in the current run
Processed == 1..(rowIdx - 1)

\* a row that is kept: non-empty title, type naming journal or conference
KeptRow(row) ==
    /\ RowTitle(row) # <<>>
    /\ (Contains(RowTypeL(row), JOURNAL) \/ Contains(RowTypeL(row), CONFERENCE))

HasYearToken(cell) == RE_YEAR_search(_as_str(cell)) # NoneVal

\* none of date, venue, venue detail and title holds a year token
NoYearToken(row) ==
    /\ ~HasYearToken(CellOr(row, 4, CNone))
    /\ ~HasYearToken(CellOr(row, 3, CNone))
    /\ ~HasYearToken(CellOr(row, 6, CNone))
    /\ ~HasYearToken(CellOr(row, 1, CNone))

\* positions of `list` whose record comes from sheet row sheet_pos
At(list, sheet_pos) == {i \in 1..Len(list) : list[i].sheet_pos = sheet_pos}

RecordSet == {journal[i] : i \in 1..Len(journal)}
             \cup {proceedings[i] : i \in 1..Len(proceedings)}

\* the records of the kept rows before sheet row sheet_pos
Preceding(sheet_pos) == {r \in RecordSet : r.sheet_pos < sheet_pos}

Nearest(recs) == CHOOSE r \in recs : \A q \in recs : q.sheet_pos <= r.sheet_pos

Count(list, x) == Cardinality({i \in 1..Len(list) : list[i] = x})

IsPermutation(a, b) ==
    /\ Len(a) = Len(b)
    /\ \A i \in 1..Len(a) : Count(a, a[i]) = Count(b, a[i])

\* a before-or-equal b: year descending, date_int descending, sheet_pos ascending
InOrder(a, b) ==
    \/ a.year > b.year
    \/ (a.year = b.year /\ a.date_int > b.date_int)
    \/ (a.year = b.year /\ a.date_int = b.date_int /\ a.sheet_pos <= b.sheet_pos)

\* out is items_sorted entry by entry, without date_int and sheet_pos
Projects(out, items_sorted) ==
    /\ Len(out) = Len(items_sorted)
    /\ \A i \in 1..Len(out) :
          /\ out[i].title = items_sorted[i].title
          /\ out[i].authors = items_sorted[i].authors
          /\ out[i].venue = items_sorted[i].venue_text
          /\ out[i].year = IF items_sorted[i].year = 0 THEN NoneVal
                           ELSE Some(items_sorted[i].year)

JournalSorted == pc \in {"sort_proceedings", "write"} \/ (pc = "idle" /\ exitStatus = <<0>>)
ProceedingsSorted == pc = "write" \/ (pc = "idle" /\ exitStatus = <<0>>)
Finished == pc = "idle" /\ exitStatus = <<0>>

\* C1: every kept row that the loop has been through is in exactly one bucket:
\* in journal with kind 'journal' if and only if its lower-cased type contains
\* 'journal', otherwise in proceedings with kind 'proceedings'.
C1_KindAndBucket ==
    \A i \in Processed :
        KeptRow(sheet[i]) =>
            LET inJ == At(journal, i + 1)
                inP == At(proceedings, i + 1)
            IN  IF Contains(RowTypeL(sheet[i]), JOURNAL)
                THEN /\ Cardinality(inJ) = 1 /\ inP = {}
                     /\ \A k \in inJ : journal[k].kind = "journal"
                ELSE /\ Cardinality(inP) = 1 /\ inJ = {}
                     /\ \A k \in inP : proceedings[k].kind = "proceedings"

\* a row whose type names both journal and conference went to journal, and
\* a conference row went to proceedings
C1_Witness ==
    /\ \E i \in Processed :
          /\ KeptRow(sheet[i])
          /\ Contains(RowTypeL(sheet[i]), JOURNAL)
          /\ Contains(RowTypeL(sheet[i]), CONFERENCE)
          /\ At(journal, i + 1) # {}
    /\ \E i \in Processed :
          /\ KeptRow(sheet[i])
          /\ ~Contains(RowTypeL(sheet[i]), JOURNAL)
          /\ At(proceedings, i + 1) # {}

\* C2: a kept row without a year token has the resolved year of the nearest
\* preceding kept row of either bucket, 0 when there is none, and 0 only when no
\* preceding kept row has a non-zero year; the carried year is the non-zero year
\* of the last kept row whatever rows were skipped since.
C2_CarryForward ==
    /\ \A r \in RecordSet :
          NoYearToken(sheet[r.sheet_pos - 1]) =>
              /\ r.year = IF Preceding(r.sheet_pos) = {} THEN 0
                          ELSE Nearest(Preceding(r.sheet_pos)).year
              /\ (r.year = 0 => \A q \in Preceding(r.sheet_pos) : q.year = 0)
    /\ last_year = IF RecordSet = {} \/ Nearest(RecordSet).year = 0 THEN NoneVal
                   ELSE Some(Nearest(RecordSet).year)

\* a row without a year token took its year from a kept row of the other bucket
\* across a skipped row that holds a year token of its own
C2_Witness ==
    \E r \in RecordSet :
        /\ NoYearToken(sheet[r.sheet_pos - 1])
        /\ r.year # 0
        /\ r.sheet_pos >= 4
        /\ ~KeptRow(sheet[r.sheet_pos - 2])
        /\ ~NoYearToken(sheet[r.sheet_pos - 2])
        /\ Nearest(Preceding(r.sheet_pos)).kind # r.kind
        /\ Nearest(Preceding(r.sheet_pos)).year = r.year

\* C3: the sorted list of each bucket is a permutation of the bucket, adjacent
\* entries are in the order year descending, date_int descending, sheet_pos
\* ascending, and the output lists its entries in that order.
C3_SortedPermutation ==
    /\ JournalSorted =>
          /\ IsPermutation(journal_sorted, journal)
          /\ \A i \in 1..(Len(journal_sorted) - 1) :
                InOrder(journal_sorted[i], journal_sorted[i + 1])
          /\ Projects(journal_out, journal_sorted)
    /\ ProceedingsSorted =>
          /\ IsPermutation(proceedings_sorted, proceedings)
          /\ \A i \in 1..(Len(proceedings_sorted) - 1) :
                InOrder(proceedings_sorted[i], proceedings_sorted[i + 1])
          /\ Projects(proceedings_out, proceedings_sorted)

\* the sort moved a later row of the same year in front of an earlier one
C3_Witness ==
    /\ JournalSorted
    /\ Len(journal_sorted) >= 2
    /\ \E i \in 1..(Len(journal_sorted) - 1) :
          /\ journal_sorted[i].year = journal_sorted[i + 1].year
          /\ journal_sorted[i].date_int > journal_sorted[i + 1].date_int
          /\ journal_sorted[i].sheet_pos > journal_sorted[i + 1].sheet_pos

\* the ranks of one output list against the sorted records behind it
DenseRanks(out, items_sorted) ==
    /\ Len(out) = Len(items_sorted)
    /\ \A i \in 1..Len(items_sorted) :
          LET same == {j \in 1..Len(items_sorted) :
                          items_sorted[j].year = items_sorted[i].year}
          IN  /\ {out[j].within_year_order : j \in same} = 0..(Cardinality(same) - 1)
              /\ \A j \in same :
                    (out[i].within_year_order < out[j].within_year_order)
                    <=> \/ items_sorted[i].date_int > items_sorted[j].date_int
                        \/ /\ items_sorted[i].date_int = items_sorted[j].date_int
                           /\ items_sorted[i].sheet_pos < items_sorted[j].sheet_pos

\* C4: in each output list the ranks of the k records of a year are exactly
\* 0..k-1, and a record ranks below another of its year exactly when its
\* date_int is larger, or equal with a smaller sheet position.
C4_DenseWithinYear ==
    /\ JournalSorted => DenseRanks(journal_out, journal_sorted)
    /\ ProceedingsSorted => DenseRanks(proceedings_out, proceedings_sorted)

\* a list with two records of one year followed by a record of another year
C4_Witness ==
    /\ JournalSorted
    /\ Len(journal_out) = 3
    /\ journal_out[1].within_year_order = 0
    /\ journal_out[2].within_year_order = 1
    /\ journal_out[3].within_year_order = 0
    /\ journal_sorted[1].year = journal_sorted[2].year
    /\ journal_sorted[2].year # journal_sorted[3].year

\* C6: neither script ends with a failure exit status, whatever was raised.
C6_NoFailureExit == exitStatus # <<1>> /\ imgExit # <<1>>

SameButTimestamp(a, b) ==
    /\ a.counts = b.counts
    /\ a.journal_papers = b.journal_papers
    /\ a.proceedings = b.proceedings

\* C7: a run of the converter that follows an earlier run on the same rows
\* writes the same counts and the same two lists of entries as that run.
C7_RerunSameOutput ==
    (Finished /\ runs >= 2) =>
        /\ prevFile # <<>>
        /\ SameButTimestamp(outFile[1], prevFile[1])

\* a second run rewrote a file with entries in both lists at a later time
C7_Witness ==
    /\ Finished
    /\ runs = 2
    /\ outFile[1].journal_papers # <<>>
    /\ outFile[1].proceedings # <<>>
    /\ outFile[1].generated_at # prevFile[1].generated_at
    /\ \E i \in 1..Len(journal) : NoYearToken(sheet[journal[i].sheet_pos - 1])

KeptPositions == {i \in 1..Len(sheet) : KeptRow(sheet[i])}

TitlesOut(payload, t) ==
    Cardinality({i \in 1..Len(payload.journal_papers) :
                    payload.journal_papers[i].title = t})
    + Cardinality({i \in 1..Len(payload.proceedings) :
                      payload.proceedings[i].title = t})

\* C8: the file written holds exactly the kept rows: every kept row once, in
\* the list of its type, no skipped row, and each count is the length of its list.
C8_ExactlyKeptRows ==
    Finished =>
        LET payload == outFile[1]
        IN  /\ payload.counts.journal = Len(payload.journal_papers)
            /\ payload.counts.proceedings = Len(payload.proceedings)
            /\ payload.counts.journal + payload.counts.proceedings
                  = Cardinality(KeptPositions)
            /\ \A i \in 1..Len(sheet) :
                  LET t == RowTitle(sheet[i])
                  IN  TitlesOut(payload, t)
                         = Cardinality({k \in KeptPositions : RowTitle(sheet[k]) = t})
            /\ Len(payload.journal_papers)
                  = Cardinality({k \in KeptPositions :
                                    Contains(RowTypeL(sheet[k]), JOURNAL)})

\* a sheet with a blank-title row, a row of another type and kept rows was written
C8_Witness ==
    /\ Finished
    /\ \E i \in 1..Len(sheet) : RowTitle(sheet[i]) = <<>>
    /\ \E i \in 1..Len(sheet) :
          RowTitle(sheet[i]) # <<>> /\ ~KeptRow(sheet[i])
    /\ outFile[1].counts.journal + outFile[1].counts.proceedings = 1

(***************************************************************************)
(* Properties of the image script                                          *)
(***************************************************************************)
Min(a, b) == IF a <= b THEN a ELSE b

\* the last run opened an image
OpenedImage == lastInput # <<>> /\ lastInput # Some(Truncated)

\* file holds an image of the size the claim gives for target_h
VariantOf(file, src, target_h) ==
    /\ file # <<>>
    /\ file[1].h = Min(src.h, target_h)
    /\ (src.h <= target_h => file[1].w = src.w)

\* a valid input image: at least 1 by 1, in a mode a .jpg file can hold or the
\* script converts (the other modes are the subject of C9)
ValidInput ==
    /\ OpenedImage
    /\ lastInput[1].w >= 1
    /\ lastInput[1].h >= 1
    /\ lastInput[1].mode \in {"RGB", "L", "CMYK", "RGBA", "P"}

\* C5: after a run on a valid image of width and height at least 1, profile.jpg
\* has height 600 if the source is higher and the source's size otherwise, and
\* profile@2x.jpg likewise for 1200.
C5_HeightMatchesTarget ==
    (imgRuns >= 1 /\ ValidInput) =>
        /\ lastSaved # <<>>
        /\ VariantOf(fs.profile, lastInput[1], Target1x)
        /\ VariantOf(fs.profile2x, lastInput[1], Target2x)

\* C9: every image handed to save is in RGB mode, whatever the source's mode.
C9_SavedAreRGB ==
    (imgRuns >= 1 /\ OpenedImage) =>
        /\ Len(lastSaved) = 2
        /\ \A i \in 1..Len(lastSaved) : lastSaved[i].mode = "RGB"

\* C10 as claimed: after any number of successful runs profile.jpg has height
\* min(h0, 600) and profile@2x.jpg has height min(h0, 1200), h0 the height of
\* the first run's input.
C10_Idempotent ==
    (imgRuns >= 1 /\ allOk) =>
        /\ fs.profile[1].h = Min(firstInput[1].h, Target1x)
        /\ fs.profile2x[1].h = Min(firstInput[1].h, Target2x)

\* C10 amended: with profile_full.jpg present every run reads it and the heights
\* are min(h0, 600) and min(h0, 1200) after every successful run; without it
\* that holds after the first run only, and from the second successful run on
\* the run reads the profile.jpg the previous run wrote, so both files have
\* height min(h0, 600).
C10_IdempotentWithFull ==
    (imgRuns >= 1 /\ allOk) =>
        /\ fs.profile[1].h = Min(firstInput[1].h, Target1x)
        /\ IF fs.full # <<>>
           THEN /\ lastInput = fs.full
                /\ lastInput = firstInput
                /\ fs.profile2x[1].h = Min(firstInput[1].h, Target2x)
           ELSE IF imgRuns = 1
           THEN fs.profile2x[1].h = Min(firstInput[1].h, Target2x)
           ELSE /\ lastInput[1].h = Min(firstInput[1].h, Target1x)
                /\ fs.profile2x[1].h = Min(firstInput[1].h, Target1x)

\* two successful runs without profile_full.jpg on a photo higher than 600, and
\* two successful runs with profile_full.jpg higher than 1200
C10_Witness ==
    /\ imgRuns = 2
    /\ allOk
    /\ fs.full = <<>>
    /\ firstInput[1].h > Target1x
    /\ fs.profile2x[1].h = Target1x

====
